---------------------------- MODULE Spec2Model ----------------------------
(***************************************************************************)
(* Model of utils/blend_indices.py: the blending-index transforms          *)
(* (rvpi/inv_rvpi, ppi/inv_ppi, vbi/inv_vbi, sg/api), the registry         *)
(* blend_indices that dispatches them by property key, and                 *)
(* process_quality_constraints.                                            *)
(*                                                                         *)
(* Numbers.  A Python/numpy double is modelled by an exact symbolic value: *)
(*   [k |-> "nan"], [k |-> "inf", s |-> 1 | -1]        the IEEE specials   *)
(*   [k |-> "rat", n, d]        the rational n/d, d > 0, in lowest terms   *)
(*   [k |-> "mono", q, a, e]    q^a * 10^e, q a positive rational          *)
(*   [k |-> "lin", m, x, c]     m*x + c, x a non-rational value            *)
(*   [k |-> "log", x]           log10(x)                                   *)
(*   [k |-> "exp", x]           10^x                                       *)
(*   [k |-> "pow", x, p], [k |-> "mul", x, y], [k |-> "quo", c, x]         *)
(*                              an operation left unevaluated              *)
(*   [k |-> "arr", a |-> <<...>>]   a one-dimensional ndarray of numbers   *)
(* Rounding to the nearest double is abstracted: two values that agree     *)
(* "within tolerance" are the same symbolic value.  What double precision  *)
(* does beyond rounding is kept: overflow of a power to inf, underflow to  *)
(* 0, division by zero giving inf, and 10^t rounding to exactly 1.0 for a  *)
(* t below half a unit in the last place.                                  *)
(***************************************************************************)
EXTENDS Integers, Sequences, FiniteSets, TLC

(***************************************************************************)
(* Exact rational arithmetic (the float operators +, -, *, / on values     *)
(* that are decimal literals).                                             *)
(***************************************************************************)
Abs(i) == IF i < 0 THEN -i ELSE i

RECURSIVE GCD(_, _)
GCD(a, b) == IF b = 0 THEN a ELSE GCD(b, a % b)

Q(n, d) ==
    LET s == IF d < 0 THEN -1 ELSE 1
        g == GCD(Abs(n), Abs(d))
    IN  [k |-> "rat", n |-> (s * n) \div g, d |-> (s * d) \div g]

IsRat(x) == x.k = "rat"
QInt(i) == Q(i, 1)
QNeg(x) == Q(-x.n, x.d)
QAdd(x, y) ==
    LET g == GCD(x.d, y.d)
    IN  Q(x.n * (y.d \div g) + y.n * (x.d \div g), (x.d \div g) * y.d)
QSub(x, y) == QAdd(x, QNeg(y))
QMul(x, y) ==
    LET g1 == GCD(Abs(x.n), y.d)
        g2 == GCD(Abs(y.n), x.d)
    IN  IF x.n = 0 \/ y.n = 0 THEN Q(0, 1)
        ELSE Q((x.n \div g1) * (y.n \div g2), (x.d \div g2) * (y.d \div g1))
QInv(x) == Q(x.d, x.n)
QDiv(x, y) == QMul(x, QInv(y))
QLt(x, y) ==
    LET g == GCD(x.d, y.d)
    IN  x.n * (y.d \div g) < y.n * (x.d \div g)
QLe(x, y) == x = y \/ QLt(x, y)
QSign(x) == IF x.n > 0 THEN 1 ELSE IF x.n < 0 THEN -1 ELSE 0
QIsInt(x) == x.d = 1

RECURSIVE IPow10(_)
IPow10(i) == IF i = 0 THEN 1 ELSE 10 * IPow10(i - 1)

\* The number of decimal digits of a positive integer.
RECURSIVE Digits(_)
Digits(i) == IF i < 10 THEN 1 ELSE 1 + Digits(i \div 10)

NaN == [k |-> "nan"]
Inf(s) == [k |-> "inf", s |-> s]
Zero == Q(0, 1)
One == Q(1, 1)

IsNaN(x) == x.k = "nan"
IsInf(x) == x.k = "inf"
IsFinite(x) == x.k \notin {"nan", "inf", "arr"}

(***************************************************************************)
(* The limits of an IEEE-754 double, as decimal exponents: 10^e overflows  *)
(* to inf above log10(DBL_MAX) = 308.2547, rounds to 0 below               *)
(* log10(2^-1075) = -323.607; 10^t rounds to exactly 1.0 when              *)
(* t < 2^-53 / ln 10, that is log10(t) < -16.3168, and 10^t overflows when *)
(* log10(t) > log10(308.2547) = 2.48891.                                   *)
(***************************************************************************)
MaxExp10 == Q(3082547, 10000)
MinExp10 == Q(-323607, 1000)
AbsorbExp10 == Q(-163168, 10000)
TowerMaxExp10 == Q(248891, 100000)

\* Rational bounds lo < log10(q) < hi of a positive rational, from the digit
\* counts of its numerator and denominator; exact (0, 0) for q = 1.
QLogLo(q) == IF q = One THEN Zero ELSE QInt(Digits(q.n) - Digits(q.d) - 1)
QLogHi(q) == IF q = One THEN Zero ELSE QInt(Digits(q.n) - Digits(q.d) + 1)

\* 10^e for a rational exponent e: a rational when it is a small integer power.
Pure10(e) ==
    IF QIsInt(e) /\ e.n >= 0 /\ e.n <= 9 THEN Q(IPow10(e.n), 1)
    ELSE IF QIsInt(e) /\ e.n < 0 /\ e.n >= -9 THEN Q(1, IPow10(-e.n))
    ELSE IF QLt(MaxExp10, e) THEN Inf(1)
    ELSE IF QLt(e, MinExp10) THEN Zero
    ELSE [k |-> "mono", q |-> One, a |-> One, e |-> e]

\* q^a * 10^e in normal form: q carries no factor of ten, a > 0, and the value
\* is a "rat" whenever it is one that fits; out of the double range it is inf or 0.
RECURSIVE MkMono(_, _, _)
MkMono(q, a, e) ==
    IF q = One \/ a = Zero THEN Pure10(e)
    ELSE IF QSign(a) < 0 THEN MkMono(QInv(q), QNeg(a), e)
    ELSE IF q.n % 10 = 0 THEN MkMono(Q(q.n \div 10, q.d), a, QAdd(e, a))
    ELSE IF q.d % 10 = 0 THEN MkMono(Q(q.n, q.d \div 10), a, QSub(e, a))
    ELSE IF a = One /\ QIsInt(e) /\ e.n >= 0 /\ Digits(q.n) + e.n <= 9
         THEN Q(q.n * IPow10(e.n), q.d)
    ELSE IF a = One /\ QIsInt(e) /\ e.n < 0 /\ Digits(q.d) - e.n <= 9
         THEN Q(q.n, q.d * IPow10(-e.n))
    ELSE IF QLe(MaxExp10, QAdd(QMul(a, QLogLo(q)), e)) THEN Inf(1)
    ELSE IF QLe(QAdd(QMul(a, QLogHi(q)), e), MinExp10) THEN Zero
    ELSE [k |-> "mono", q |-> q, a |-> a, e |-> e]

\* Whether a positive rational is an integer power of ten, and which.
IsPow10(q) ==
    \/ q.d = 1 /\ q.n = IPow10(Digits(q.n) - 1)
    \/ q.n = 1 /\ q.d = IPow10(Digits(q.d) - 1)
Exp10Of(q) == IF q.d = 1 THEN QInt(Digits(q.n) - 1) ELSE QInt(1 - Digits(q.d))

\* m*x + c in normal form.
MkLin(m, x, c) ==
    IF m = Zero THEN c
    ELSE IF m = One /\ c = Zero THEN x
    ELSE [k |-> "lin", m |-> m, x |-> x, c |-> c]

\* Whether a finite value is known to be positive / the bounds of its log10.
RECURSIVE IsPositive(_)
IsPositive(x) ==
    CASE x.k = "rat" -> x.n > 0
      [] x.k = "mono" -> TRUE
      [] x.k = "exp" -> TRUE
      [] x.k = "inf" -> x.s = 1
      [] x.k = "lin" -> QSign(x.m) > 0 /\ QSign(x.c) >= 0 /\ IsPositive(x.x)
      [] OTHER -> FALSE

(***************************************************************************)
(* Scalar float operations with a rational constant c.                     *)
(***************************************************************************)
\* x + c.  A double carries 53 bits, under 16 decimal digits: a constant more
\* than 16 decades below x is absorbed, x + c = x.
AddC(x, c) ==
    CASE x.k = "nan" -> NaN
      [] x.k = "inf" -> x
      [] x.k = "rat" -> QAdd(x, c)
      [] x.k = "lin" -> MkLin(x.m, x.x, QAdd(x.c, c))
      [] x.k = "mono" ->
            IF c = Zero
               \/ QLe(QAdd(QLogHi(Q(Abs(c.n), c.d)), QInt(16)),
                      QAdd(QMul(x.a, QLogLo(x.q)), x.e))
            THEN x
            ELSE MkLin(One, x, c)
      [] OTHER -> MkLin(One, x, c)

\* x * c
MulC(x, c) ==
    CASE x.k = "nan" -> NaN
      [] x.k = "inf" -> IF c = Zero THEN NaN ELSE Inf(x.s * QSign(c))
      [] x.k = "rat" -> QMul(x, c)
      [] x.k = "lin" -> MkLin(QMul(x.m, c), x.x, QMul(x.c, c))
      [] x.k = "mono" /\ QSign(c) > 0 /\ IsPow10(c) ->
            MkMono(x.q, x.a, QAdd(x.e, Exp10Of(c)))
      [] x.k = "mono" /\ QSign(c) > 0 /\ x.a = One -> MkMono(QMul(x.q, c), One, x.e)
      [] OTHER -> MkLin(c, x, Zero)

\* x / c, c a nonzero constant
DivC(x, c) == MulC(x, QInv(c))

\* x > c.  Exact for rationals and the specials; a symbolic value is compared
\* through the monotone operation at its head.
RECURSIVE Greater(_, _)
Greater(x, c) ==
    CASE x.k = "nan" -> FALSE
      [] x.k = "inf" -> x.s = 1
      [] x.k = "rat" -> QLt(c, x)
      [] x.k = "lin" -> IF QSign(x.m) > 0
                        THEN Greater(x.x, QDiv(QSub(c, x.c), x.m))
                        ELSE FALSE
      [] x.k = "mono" -> IF QSign(c) <= 0 THEN TRUE
                         ELSE QLe(QLogHi(c), QAdd(QMul(x.a, QLogLo(x.q)), x.e))
                              \/ (c = One /\ x.q = One /\ QSign(x.e) > 0)
      [] x.k = "exp" -> IF QSign(c) <= 0 THEN TRUE
                        ELSE c = One /\ Greater(x.x, Zero)
      [] x.k = "log" -> c = Zero /\ Greater(x.x, One)
      [] OTHER -> FALSE

(***************************************************************************)
(* The numpy ufuncs the transforms use, on one element.                    *)
(***************************************************************************)
\* np.power(x, p) and x ** p for a positive rational constant p that is not an
\* integer (1.25, 1/1.25, 12.5, 0.08): a negative base gives nan.
Power(x, p) ==
    CASE x.k = "nan" -> NaN
      [] x.k = "inf" -> Inf(1)
      [] x.k = "rat" -> IF x.n > 0 THEN MkMono(x, p, Zero)
                        ELSE IF x.n = 0 THEN Zero
                        ELSE NaN
      [] x.k = "mono" -> MkMono(x.q, QMul(x.a, p), QMul(x.e, p))
      [] x.k = "lin" /\ QSign(x.m) < 0 /\ x.c = Zero /\ IsPositive(x.x) -> NaN
      [] x.k = "pow" /\ QMul(x.p, p) = One -> x.x
      [] OTHER -> [k |-> "pow", x |-> x, p |-> p]

\* np.power(10, x)
Pow10(x) ==
    CASE x.k = "nan" -> NaN
      [] x.k = "inf" -> IF x.s = 1 THEN Inf(1) ELSE Zero
      [] x.k = "rat" -> Pure10(x)
      [] x.k = "mono" ->
            IF QLt(TowerMaxExp10, QAdd(QMul(x.a, QLogLo(x.q)), x.e)) THEN Inf(1)
            ELSE IF QLt(QAdd(QMul(x.a, QLogHi(x.q)), x.e), AbsorbExp10) THEN One
            ELSE [k |-> "exp", x |-> x]
      [] x.k = "log" -> x.x
      [] x.k = "lin" /\ x.x.k = "log" /\ x.x.x.k = "rat" -> MkMono(x.x.x, x.m, x.c)
      [] OTHER -> [k |-> "exp", x |-> x]

\* np.log10(x): -inf at 0 and nan below it (numpy warns and goes on).
Log10(x) ==
    CASE x.k = "nan" -> NaN
      [] x.k = "inf" -> IF x.s = 1 THEN Inf(1) ELSE NaN
      [] x.k = "rat" -> IF x.n < 0 THEN NaN
                        ELSE IF x.n = 0 THEN Inf(-1)
                        ELSE IF IsPow10(x) THEN Exp10Of(x)
                        ELSE [k |-> "log", x |-> x]
      [] x.k = "mono" -> IF x.q = One THEN x.e
                         ELSE MkLin(x.a, [k |-> "log", x |-> x.q], x.e)
      [] x.k = "exp" -> x.x
      [] OTHER -> IF Greater(x, Zero) THEN [k |-> "log", x |-> x] ELSE NaN

\* np.divide(c, x) for a positive constant c: x = 0 gives inf (numpy warns
\* "divide by zero" and goes on).
Divide(c, x) ==
    CASE x.k = "nan" -> NaN
      [] x.k = "inf" -> Zero
      [] x.k = "rat" -> IF x.n = 0 THEN Inf(1) ELSE QDiv(c, x)
      [] x.k = "quo" /\ x.c = c -> x.x
      [] OTHER -> [k |-> "quo", c |-> c, x |-> x]

\* np.multiply(x, y) for a positive constant y = 10^e that is no rational.
Multiply(x, y) ==
    CASE x.k = "nan" -> NaN
      [] x.k = "inf" -> x
      [] x.k = "rat" -> IF x.n > 0 THEN MkMono(x, One, y.e)
                        ELSE IF x.n = 0 THEN Zero
                        ELSE MkLin(x, y, Zero)
      [] x.k = "mono" -> MkMono(x.q, x.a, QAdd(x.e, y.e))
      [] OTHER -> [k |-> "mul", x |-> x, y |-> y]

(***************************************************************************)
(* Broadcasting: a ufunc or an arithmetic operator applied to an ndarray   *)
(* returns a new ndarray of the same shape, applied to each element.       *)
(***************************************************************************)
IsArr(v) == v.k = "arr"
Arr(s) == [k |-> "arr", a |-> s]
Each(F(_), v) == IF IsArr(v) THEN Arr([i \in DOMAIN v.a |-> F(v.a[i])]) ELSE F(v)

\* np.all(v > c)
AllGreater(v, c) ==
    IF IsArr(v) THEN \A i \in DOMAIN v.a : Greater(v.a[i], c) ELSE Greater(v, c)

(***************************************************************************)
(* Program state.                                                          *)
(*   blend_indices  the module-level registry dict                         *)
(*   debug          __debug__: FALSE when the interpreter runs with -O,    *)
(*                  which strips assert statements                         *)
(*   pc, call, arg, frame, ret                                             *)
(*                  per caller: the line it is at, the request it made,    *)
(*                  the object it passed (parameters are bound by          *)
(*                  reference), the callee's local variables, the outcome  *)
(***************************************************************************)
VARIABLES blend_indices, debug, pc, call, arg, frame, ret

vars == <<blend_indices, debug, pc, call, arg, frame, ret>>

Callers == {"c1", "c2"}

\* What a call ends with: a value, None, or an exception.
None == [k |-> "None"]
Raise(exc, what) == [k |-> "raise", exc |-> exc, what |-> what]
IsRaise(r) == r.k = "raise"
Unbound == [k |-> "unbound"]

(***************************************************************************)
(* The transforms, statement by statement.                                 *)
(***************************************************************************)
\* return c * 9/5 + 32
celcius_to_fahrenheit(c) ==
    Each(LAMBDA e : AddC(DivC(MulC(e, QInt(9)), QInt(5)), QInt(32)), c)

\* return (f - 32) * 5/9
fahrenheit_to_celcius(f) ==
    Each(LAMBDA e : DivC(MulC(AddC(e, QInt(-32)), QInt(5)), QInt(9)), f)

\* A variant of rvpi that is not element-wise: the power of the first element
\* at every position.
rvpi_first(rvp) ==
    IF IsArr(rvp) /\ Len(rvp.a) > 0
    THEN Arr([i \in DOMAIN rvp.a |-> Power(rvp.a[1], Q(125, 100))])
    ELSE Each(LAMBDA e : Power(e, Q(125, 100)), rvp)

\* return np.power(rvp, 1.25)
rvpi(rvp) == Each(LAMBDA e : Power(e, Q(125, 100)), rvp)

\* A variant of inv_rvpi with the exponent of rvpi, 1.25 for 1.0/1.25.
inv_rvpi_same_exponent(i) == Each(LAMBDA e : Power(e, Q(125, 100)), i)

\* return np.power(rvpi, 1.0/1.25)
inv_rvpi(i) == Each(LAMBDA e : Power(e, QDiv(One, Q(125, 100))), i)

\* term1 = (ppc + 273.15) / 283.15
ppi_term1(ppc) == Each(LAMBDA e : DivC(AddC(e, Q(27315, 100)), Q(28315, 100)), ppc)

\* term2 = np.multiply(term1, 100**0.08)
ppi_term2(term1) ==
    Each(LAMBDA e : Multiply(e, Power(QInt(100), Q(8, 100))), term1)

\* return np.power(term2, 12.5)
ppi_result(term2) == Each(LAMBDA e : Power(e, Q(125, 10)), term2)

ppi(pp) == ppi_result(ppi_term2(ppi_term1(fahrenheit_to_celcius(pp))))

\* return (283.15*((ppi/100)**0.08) - 273.15) * 1.8 + 32
inv_ppi(i) ==
    Each(LAMBDA e :
            AddC(MulC(AddC(MulC(Power(DivC(e, QInt(100)), Q(8, 100)),
                                Q(28315, 100)),
                           Q(-27315, 100)),
                      Q(18, 10)),
                 QInt(32)),
         i)

\* A variant of the guard with np.any for np.all: it raises only when no
\* element is above 0.2.
vbi_assert_fails_any(v) ==
    debug /\ ~(IF IsArr(v) THEN \E i \in DOMAIN v.a : Greater(v.a[i], Q(2, 10))
                         ELSE Greater(v, Q(2, 10)))

\* assert np.all(v > 0.2): whether the statement raises
vbi_assert_fails(v) == debug /\ ~AllGreater(v, Q(2, 10))

\* vbi = np.log10(np.log10(v + 0.8))
vbi_value(v) == Each(LAMBDA e : Log10(Log10(AddC(e, Q(8, 10)))), v)

vbi(v) ==
    IF vbi_assert_fails(v) THEN Raise("AssertionError", "") ELSE vbi_value(v)

\* A variant of inv_vbi with one exponentiation for two: 10^vbi - 0.8.
inv_vbi_single(i) == Each(LAMBDA e : AddC(Pow10(e), Q(-8, 10)), i)

\* vb = np.power(10, np.power(10, vbi)) - 0.8
inv_vbi(i) == Each(LAMBDA e : AddC(Pow10(Pow10(e)), Q(-8, 10)), i)

\* A variant of sg with the sign of the API term flipped: 141.5 / (131.5 - api).
sg_minus(a) ==
    Each(LAMBDA e : Divide(Q(1415, 10), AddC(MulC(e, QInt(-1)), Q(1315, 10))), a)

\* return np.divide(141.5, 131.5 + api)
sg(a) == Each(LAMBDA e : Divide(Q(1415, 10), AddC(e, Q(1315, 10))), a)

\* return np.divide(141.5, sg) - 131.5
api(g) == Each(LAMBDA e : AddC(Divide(Q(1415, 10), e), Q(-1315, 10)), g)

\* Calling a function object by the name the registry holds for it.
Apply(fn, v) ==
    CASE fn = "vbi" -> vbi(v)
      [] fn = "inv_vbi" -> inv_vbi(v)
      [] fn = "rvpi" -> rvpi(v)
      [] fn = "inv_rvpi" -> inv_rvpi(v)
      [] fn = "ppi" -> ppi(v)
      [] fn = "inv_ppi" -> inv_ppi(v)
      [] fn = "sg" -> sg(v)
      [] fn = "api" -> api(v)

(***************************************************************************)
(* The registry as the module constructs it.                               *)
(***************************************************************************)
Registry ==
    [key \in {"vis100f", "rvp", "pour", "api"} |->
        CASE key = "vis100f" ->
                [index_name |-> "vis100f_idx", func |-> "vbi", inv_func |-> "inv_vbi"]
          [] key = "rvp" ->
                [index_name |-> "rvp_idx", func |-> "rvpi", inv_func |-> "inv_rvpi"]
          [] key = "pour" ->
                [index_name |-> "pour_idx", func |-> "ppi", inv_func |-> "inv_ppi"]
          [] key = "api" ->
                [index_name |-> "sg", func |-> "sg", inv_func |-> "api"]]

\* blend_indices[key]: a dict subscript raises KeyError(key) for a missing key.
Subscript(d, key) ==
    IF key \in DOMAIN d THEN d[key] ELSE Raise("KeyError", key)

\* The body of process_quality_constraints is its docstring alone: the call
\* evaluates nothing and returns None.
process_quality_constraints(constraints) == None

(***************************************************************************)
(* Inputs.  The callers draw property keys from the registry's keys and    *)
(* one key it does not hold, and values from samples that cover each       *)
(* transform's domain, its boundary and the double range.                  *)
(***************************************************************************)
MaxLen == 2
ConcLen == 1
MaxKeys == 2
ConcKeys == 1

UnknownKey == "unknown_prop"
KeyChoices == DOMAIN Registry \cup {UnknownKey}

\* Physical values: scalars.
Physical(key) ==
    CASE key = "vis100f" ->
            {Zero, Q(2, 10), Q(2000001, 10000000), Q(92, 10), Pure10(QInt(100))}
      [] key = "rvp" ->
            {Zero, QInt(5), QInt(10), Pure10(QInt(300)), Pure10(QInt(-300))}
      [] key = "pour" ->
            {QInt(32), QInt(50), Q(-45967, 100), QInt(-500), Pure10(QInt(30))}
      [] key = "api" -> {Zero, QInt(30), QInt(10), Q(-1315, 10)}
      [] OTHER -> {One}

\* Index values: scalars.
Index(key) ==
    CASE key = "vis100f" ->
            {QInt(-20), QInt(-16), QInt(-1), Zero, QInt(2), QInt(3)}
      [] key = "rvp" -> {Zero, QInt(7)}
      [] key = "pour" -> {QInt(100), QInt(37)}
      [] key = "api" -> {One, Zero, Q(283, 263)}
      [] OTHER -> {One}

\* The elements arrays and constraint lists are built from.
Elements(key) ==
    CASE key = "vis100f" -> {Q(92, 10), Q(2000001, 10000000), Q(2, 10)}
      [] key = "rvp" -> {QInt(5), QInt(10)}
      [] key = "pour" -> {QInt(32), QInt(50)}
      [] key = "api" -> {QInt(30), Q(-1315, 10)}
      [] OTHER -> {}

SeqsUpTo(S, n) == UNION {[1..m -> S] : m \in 0..n}

Arrays(key, n) == {Arr(s) : s \in SeqsUpTo(Elements(key), n)}

\* A constraint set: a dict from property key to a list of bounds, in
\* insertion order, here the sequence of its items.
List(s) == [k |-> "list", a |-> s]
ConstraintLists(key) ==
    CASE key = "vis100f" -> {<<Q(92, 10), Q(2000001, 10000000)>>, <<Q(92, 10), Q(2, 10)>>}
      [] key = "rvp" -> {<<QInt(5), QInt(10)>>}
      [] key = "pour" -> {<<QInt(32)>>}
      [] key = "api" -> {<<QInt(30)>>}
      [] OTHER -> {<<One>>}
Items ==
    UNION {{[key |-> key, vals |-> List(l)] : l \in ConstraintLists(key)} :
              key \in KeyChoices}
Dict(items) == [k |-> "dict", items |-> items]
ConstraintSets(n) ==
    {Dict(s) : s \in {t \in SeqsUpTo(Items, n) :
                        \A i, j \in DOMAIN t : i # j => t[i].key # t[j].key}}

\* A request: the operation, the property key, the argument, and for a call
\* that passes on the result of the caller's previous call, that call's argument.
Request(op, key, v, from) == [op |-> op, key |-> key, arg |-> v, from |-> from]
NoCall == Request("none", "", Unbound, Unbound)

Requests(len, keys) ==
    {Request("lookup", key, Unbound, Unbound) : key \in KeyChoices}
    \cup UNION {{Request("forward", key, v, Unbound) :
                    v \in Physical(key) \cup Arrays(key, len)} : key \in KeyChoices}
    \cup UNION {{Request("inverse", key, v, Unbound) : v \in Index(key)} :
                    key \in KeyChoices}
    \cup {Request("process_quality_constraints", "", d, Unbound) :
                    d \in ConstraintSets(keys)}
    \cup {Request("celcius_to_fahrenheit", "", v, Unbound) : v \in {Zero, QInt(100)}}
    \cup {Request("fahrenheit_to_celcius", "", v, Unbound) : v \in {QInt(32)}}

\* The requests the callers of each specification choose from.
SpecRequests == Requests(MaxLen, MaxKeys)
ConcRequests == Requests(ConcLen, ConcKeys)

(***************************************************************************)
(* The state machine.  A caller makes a request, the interpreter runs the  *)
(* callee one statement at a time, interleaved with the other callers, and *)
(* the call ends with a return value or an exception in ret.               *)
(***************************************************************************)
NoFrame ==
    [fn |-> "", ppc |-> Unbound, term1 |-> Unbound, term2 |-> Unbound,
     vbi |-> Unbound, vb |-> Unbound]

Init ==
    /\ blend_indices = Registry
    /\ debug \in BOOLEAN
    /\ pc = [c \in Callers |-> "idle"]
    /\ call = [c \in Callers |-> NoCall]
    /\ arg = [c \in Callers |-> Unbound]
    /\ frame = [c \in Callers |-> NoFrame]
    /\ ret = [c \in Callers |-> Unbound]

\* Where a request starts: a registry dispatch starts at the subscript
\* blend_indices[key], a direct call at the first statement of the function.
StartPc(op) ==
    CASE op \in {"lookup", "forward", "inverse"} -> "blend_indices[key]"
      [] op = "process_quality_constraints" -> "process_quality_constraints:78"
      [] op = "celcius_to_fahrenheit" -> "celcius_to_fahrenheit:5"
      [] op = "fahrenheit_to_celcius" -> "fahrenheit_to_celcius:8"

\* The first statement of each transform.
EntryPc(fn) ==
    CASE fn = "vbi" -> "vbi:34"
      [] fn = "inv_vbi" -> "inv_vbi:41"
      [] fn = "rvpi" -> "rvpi:13"
      [] fn = "inv_rvpi" -> "inv_rvpi:16"
      [] fn = "ppi" -> "ppi:21"
      [] fn = "inv_ppi" -> "inv_ppi:27"
      [] fn = "sg" -> "sg:48"
      [] fn = "api" -> "api:51"

\* A caller makes a request.
Call(c, reqs) ==
    /\ pc[c] = "idle"
    /\ \E r \in reqs :
          /\ call' = [call EXCEPT ![c] = r]
          /\ arg' = [arg EXCEPT ![c] = r.arg]
          /\ pc' = [pc EXCEPT ![c] = StartPc(r.op)]
    /\ UNCHANGED <<blend_indices, debug, frame, ret>>

\* A caller passes the value its transform returned to the opposite transform
\* of the same property.
PassOn(c) ==
    /\ pc[c] = "done"
    /\ call[c].op \in {"forward", "inverse"}
    /\ call[c].from = Unbound
    /\ ~IsRaise(ret[c])
    /\ call' = [call EXCEPT ![c] =
                  Request(IF call[c].op = "forward" THEN "inverse" ELSE "forward",
                          call[c].key, ret[c], call[c].arg)]
    /\ arg' = [arg EXCEPT ![c] = ret[c]]
    /\ pc' = [pc EXCEPT ![c] = "blend_indices[key]"]
    /\ frame' = [frame EXCEPT ![c] = NoFrame]
    /\ ret' = [ret EXCEPT ![c] = Unbound]
    /\ UNCHANGED <<blend_indices, debug>>

\* The caller takes the outcome; the call's frame is gone.
Finish(c) ==
    /\ pc[c] = "done"
    /\ pc' = [pc EXCEPT ![c] = "idle"]
    /\ call' = [call EXCEPT ![c] = NoCall]
    /\ arg' = [arg EXCEPT ![c] = Unbound]
    /\ frame' = [frame EXCEPT ![c] = NoFrame]
    /\ ret' = [ret EXCEPT ![c] = Unbound]
    /\ UNCHANGED <<blend_indices, debug>>

\* A return statement, or an exception leaving the call.
Return(c, r) ==
    /\ pc' = [pc EXCEPT ![c] = "done"]
    /\ ret' = [ret EXCEPT ![c] = r]

\* A variant of the dispatch that memoises the entry it found under its
\* index_name, blend_indices[d["index_name"]] = d, and so writes the registry.
blend_indices_getitem_memo(c) ==
    /\ pc[c] = "blend_indices[key]"
    /\ IF call[c].key \notin DOMAIN blend_indices
       THEN /\ Return(c, Subscript(blend_indices, call[c].key))
            /\ UNCHANGED <<frame, blend_indices>>
       ELSE LET d == Subscript(blend_indices, call[c].key)
                fn == IF call[c].op = "forward" THEN d.func ELSE d.inv_func
                memo == [key \in DOMAIN blend_indices \cup {d.index_name} |->
                            IF key = d.index_name THEN d ELSE blend_indices[key]]
            IN  /\ blend_indices' = memo
                /\ IF call[c].op = "lookup"
                   THEN /\ Return(c, [k |-> "dict", v |-> d])
                        /\ UNCHANGED frame
                   ELSE /\ frame' = [frame EXCEPT ![c].fn = fn]
                        /\ pc' = [pc EXCEPT ![c] = EntryPc(fn)]
                        /\ UNCHANGED ret
    /\ UNCHANGED <<debug, call, arg>>

\* blend_indices[key], then ["func"] or ["inv_func"] and the call of it.
blend_indices_getitem(c) ==
    /\ pc[c] = "blend_indices[key]"
    /\ IF call[c].key \notin DOMAIN blend_indices
       THEN /\ Return(c, Subscript(blend_indices, call[c].key))
            /\ UNCHANGED frame
       ELSE IF call[c].op = "lookup"
       THEN /\ Return(c, [k |-> "dict", v |-> Subscript(blend_indices, call[c].key)])
            /\ UNCHANGED frame
       ELSE LET d == Subscript(blend_indices, call[c].key)
                fn == IF call[c].op = "forward" THEN d.func ELSE d.inv_func
            IN  /\ frame' = [frame EXCEPT ![c].fn = fn]
                /\ pc' = [pc EXCEPT ![c] = EntryPc(fn)]
                /\ UNCHANGED ret
    /\ UNCHANGED <<blend_indices, debug, call, arg>>

celcius_to_fahrenheit_5(c) ==
    /\ pc[c] = "celcius_to_fahrenheit:5"
    /\ Return(c, celcius_to_fahrenheit(arg[c]))
    /\ UNCHANGED <<blend_indices, debug, call, arg, frame>>

fahrenheit_to_celcius_8(c) ==
    /\ pc[c] = "fahrenheit_to_celcius:8"
    /\ Return(c, fahrenheit_to_celcius(arg[c]))
    /\ UNCHANGED <<blend_indices, debug, call, arg, frame>>

rvpi_13(c) ==
    /\ pc[c] = "rvpi:13"
    /\ Return(c, rvpi(arg[c]))
    /\ UNCHANGED <<blend_indices, debug, call, arg, frame>>

inv_rvpi_16(c) ==
    /\ pc[c] = "inv_rvpi:16"
    /\ Return(c, inv_rvpi(arg[c]))
    /\ UNCHANGED <<blend_indices, debug, call, arg, frame>>

\* ppc = fahrenheit_to_celcius(pp)
ppi_21(c) ==
    /\ pc[c] = "ppi:21"
    /\ frame' = [frame EXCEPT ![c].ppc = fahrenheit_to_celcius(arg[c])]
    /\ pc' = [pc EXCEPT ![c] = "ppi:22"]
    /\ UNCHANGED <<blend_indices, debug, call, arg, ret>>

\* A variant of line 22 with ppc a module-level global: the statement reads
\* the ppc that whichever caller bound last left there.
ppi_22_global(c) ==
    /\ pc[c] = "ppi:22"
    /\ \E d \in Callers :
          /\ frame[d].ppc # Unbound
          /\ frame' = [frame EXCEPT ![c].term1 = ppi_term1(frame[d].ppc)]
    /\ pc' = [pc EXCEPT ![c] = "ppi:23"]
    /\ UNCHANGED <<blend_indices, debug, call, arg, ret>>

\* term1 = (ppc + 273.15) / 283.15
ppi_22(c) ==
    /\ pc[c] = "ppi:22"
    /\ frame' = [frame EXCEPT ![c].term1 = ppi_term1(frame[c].ppc)]
    /\ pc' = [pc EXCEPT ![c] = "ppi:23"]
    /\ UNCHANGED <<blend_indices, debug, call, arg, ret>>

ppi_23(c) ==
    /\ pc[c] = "ppi:23"
    /\ frame' = [frame EXCEPT ![c].term2 = ppi_term2(frame[c].term1)]
    /\ pc' = [pc EXCEPT ![c] = "ppi:24"]
    /\ UNCHANGED <<blend_indices, debug, call, arg, ret>>

ppi_24(c) ==
    /\ pc[c] = "ppi:24"
    /\ Return(c, ppi_result(frame[c].term2))
    /\ UNCHANGED <<blend_indices, debug, call, arg, frame>>

inv_ppi_27(c) ==
    /\ pc[c] = "inv_ppi:27"
    /\ Return(c, inv_ppi(arg[c]))
    /\ UNCHANGED <<blend_indices, debug, call, arg, frame>>

\* assert np.all(v > 0.2)
vbi_34(c) ==
    /\ pc[c] = "vbi:34"
    /\ IF vbi_assert_fails(arg[c])
       THEN Return(c, Raise("AssertionError", ""))
       ELSE /\ pc' = [pc EXCEPT ![c] = "vbi:36"]
            /\ UNCHANGED ret
    /\ UNCHANGED <<blend_indices, debug, call, arg, frame>>

vbi_36(c) ==
    /\ pc[c] = "vbi:36"
    /\ frame' = [frame EXCEPT ![c].vbi = vbi_value(arg[c])]
    /\ pc' = [pc EXCEPT ![c] = "vbi:37"]
    /\ UNCHANGED <<blend_indices, debug, call, arg, ret>>

vbi_37(c) ==
    /\ pc[c] = "vbi:37"
    /\ Return(c, frame[c].vbi)
    /\ UNCHANGED <<blend_indices, debug, call, arg, frame>>

inv_vbi_41(c) ==
    /\ pc[c] = "inv_vbi:41"
    /\ frame' = [frame EXCEPT ![c].vb = inv_vbi(arg[c])]
    /\ pc' = [pc EXCEPT ![c] = "inv_vbi:42"]
    /\ UNCHANGED <<blend_indices, debug, call, arg, ret>>

inv_vbi_42(c) ==
    /\ pc[c] = "inv_vbi:42"
    /\ Return(c, frame[c].vb)
    /\ UNCHANGED <<blend_indices, debug, call, arg, frame>>

sg_48(c) ==
    /\ pc[c] = "sg:48"
    /\ Return(c, sg(arg[c]))
    /\ UNCHANGED <<blend_indices, debug, call, arg, frame>>

api_51(c) ==
    /\ pc[c] = "api:51"
    /\ Return(c, api(arg[c]))
    /\ UNCHANGED <<blend_indices, debug, call, arg, frame>>

process_quality_constraints_78(c) ==
    /\ pc[c] = "process_quality_constraints:78"
    /\ Return(c, process_quality_constraints(arg[c]))
    /\ UNCHANGED <<blend_indices, debug, call, arg, frame>>

\* One statement of the call caller c is in.
Step(c) ==
    \/ blend_indices_getitem(c)
    \/ celcius_to_fahrenheit_5(c)
    \/ fahrenheit_to_celcius_8(c)
    \/ rvpi_13(c)
    \/ inv_rvpi_16(c)
    \/ ppi_21(c)
    \/ ppi_22(c)
    \/ ppi_23(c)
    \/ ppi_24(c)
    \/ inv_ppi_27(c)
    \/ vbi_34(c)
    \/ vbi_36(c)
    \/ vbi_37(c)
    \/ inv_vbi_41(c)
    \/ inv_vbi_42(c)
    \/ sg_48(c)
    \/ api_51(c)
    \/ process_quality_constraints_78(c)

\* One caller, making one call after the other.
Next ==
    \/ Call("c1", SpecRequests)
    \/ PassOn("c1")
    \/ Step("c1")
    \/ Finish("c1")

Spec == Init /\ [][Next]_vars

\* Several callers at once, their calls interleaved statement by statement.
NextConc ==
    \E c \in Callers :
        \/ Call(c, ConcRequests)
        \/ Step(c)
        \/ Finish(c)

SpecConc == Init /\ [][NextConc]_vars

(***************************************************************************)
(* What the claims speak of.                                               *)
(***************************************************************************)
\* Caller c's call of op has ended.
Done(c, op) == pc[c] = "done" /\ call[c].op = op

\* The elements of a scalar or an array, in order.
AsSeq(v) == IF IsArr(v) THEN v.a ELSE <<v>>

\* A finite value at or below the rational bound c.
AtMost(x, c) == IsFinite(x) /\ ~Greater(x, c)

\* The valid physical domain of each property: viscosity above 0.2, Reid
\* vapor pressure not negative, pour point not below absolute zero
\* (-459.67 F), API gravity off the pole of 141.5 / (131.5 + API).
InDomain(key, x) ==
    /\ IsFinite(x)
    /\ CASE key = "vis100f" -> Greater(x, Q(2, 10))
         [] key = "rvp" -> x = Zero \/ Greater(x, Zero)
         [] key = "pour" -> x = Q(-45967, 100) \/ Greater(x, Q(-45967, 100))
         [] key = "api" -> x # Q(-1315, 10)
         [] OTHER -> FALSE

\* The index values each forward transform can produce in double precision:
\* vbi between log10(log10(1 + 2^-52)) and log10(log10(DBL_MAX)), rvpi and
\* ppi from 0 up, sg everything but 0.
InImage(key, y) ==
    /\ IsRat(y)
    /\ CASE key = "vis100f" -> QLt(AbsorbExp10, y) /\ QLt(y, TowerMaxExp10)
         [] key = "rvp" -> y.n >= 0
         [] key = "pour" -> y.n >= 0
         [] key = "api" -> y.n # 0
         [] OTHER -> FALSE

\* What a request returns when it runs alone, from the registry as constructed.
Outcome(r) ==
    CASE r.op = "lookup" ->
            IF r.key \in DOMAIN Registry
            THEN [k |-> "dict", v |-> Registry[r.key]]
            ELSE Raise("KeyError", r.key)
      [] r.op = "forward" ->
            IF r.key \in DOMAIN Registry
            THEN Apply(Registry[r.key].func, r.arg)
            ELSE Raise("KeyError", r.key)
      [] r.op = "inverse" ->
            IF r.key \in DOMAIN Registry
            THEN Apply(Registry[r.key].inv_func, r.arg)
            ELSE Raise("KeyError", r.key)
      [] r.op = "process_quality_constraints" -> process_quality_constraints(r.arg)
      [] r.op = "celcius_to_fahrenheit" -> celcius_to_fahrenheit(r.arg)
      [] r.op = "fahrenheit_to_celcius" -> fahrenheit_to_celcius(r.arg)

KeysOf(d) == {d.items[i].key : i \in DOMAIN d.items}
AllInDomain(d) ==
    \A i \in DOMAIN d.items :
        \A j \in DOMAIN d.items[i].vals.a :
            InDomain(d.items[i].key, d.items[i].vals.a[j])

\* C3: for a key the registry does not hold, a lookup, forward, inverse and
\* the projection of a constraint set containing the key all fail with a
\* not-found error naming the key (Python's is KeyError); none returns a
\* default, a null transform or a result.
C3_UnknownKeyFails ==
    \A c \in Callers :
        /\ pc[c] = "done" /\ call[c].op \in {"lookup", "forward", "inverse"}
           /\ call[c].key \notin DOMAIN Registry
            => /\ IsRaise(ret[c])
               /\ ret[c].exc \in {"NotFoundError", "KeyError"}
               /\ ret[c].what = call[c].key
        /\ Done(c, "process_quality_constraints")
           /\ ~(KeysOf(call[c].arg) \subseteq DOMAIN Registry)
            => /\ IsRaise(ret[c])
               /\ ret[c].exc \in {"NotFoundError", "KeyError"}
               /\ ret[c].what \in KeysOf(call[c].arg) \ DOMAIN Registry

\* C4: for a constraint set whose keys are all registry keys and whose values
\* are all in-domain, the projector returns a mapping with the same keys in
\* the same order, each mapped to a sequence of the same length whose element
\* at every position is the forward transform of the input element there.
C4_ProjectsEveryValue ==
    \A c \in Callers :
        Done(c, "process_quality_constraints")
        /\ KeysOf(call[c].arg) \subseteq DOMAIN Registry
        /\ AllInDomain(call[c].arg)
            => /\ ret[c].k = "dict"
               /\ DOMAIN ret[c].items = DOMAIN call[c].arg.items
               /\ \A i \in DOMAIN call[c].arg.items :
                     LET in == call[c].arg.items[i]
                         out == ret[c].items[i]
                     IN  /\ out.key = in.key
                         /\ DOMAIN out.vals.a = DOMAIN in.vals.a
                         /\ \A j \in DOMAIN in.vals.a :
                               out.vals.a[j] =
                                  Apply(Registry[in.key].func, in.vals.a[j])

\* C5: the projector is atomic on failure: with an unknown key or a single
\* out-of-domain value anywhere in the input the whole call fails with the
\* originating error, and no partially transformed set is returned.
C5_FailsAtomically ==
    \A c \in Callers :
        Done(c, "process_quality_constraints")
        /\ (~(KeysOf(call[c].arg) \subseteq DOMAIN Registry)
                \/ ~AllInDomain(call[c].arg))
            => /\ IsRaise(ret[c])
               /\ ret[c].exc \in {"NotFoundError", "KeyError", "DomainError",
                                  "AssertionError"}

(***************************************************************************)
(* C6.  Each registry entry's inv_func inverts its func.                   *)
(***************************************************************************)
\* func(x) left the double range: it overflowed to inf, or (x^1.25 for a tiny
\* x) underflowed to 0.
Lost(key, x, fx) == IsInf(fx) \/ (key = "rvp" /\ fx = Zero /\ x # Zero)

WellConditioned(key, y) ==
    /\ InImage(key, y)
    /\ CASE key = "vis100f" -> QLe(QInt(-8), y)
         [] key = "rvp" -> TRUE
         [] key = "pour" -> QLe(Q(1, 100000), y)
         [] key = "api" -> QLe(Q(Abs(y.n), y.d), QInt(100000))
         [] OTHER -> FALSE

C7_RegistryFixed ==
    /\ DOMAIN blend_indices = {"vis100f", "rvp", "pour", "api"}
    /\ blend_indices["vis100f"] =
          [index_name |-> "vis100f_idx", func |-> "vbi", inv_func |-> "inv_vbi"]
    /\ blend_indices["rvp"] =
          [index_name |-> "rvp_idx", func |-> "rvpi", inv_func |-> "inv_rvpi"]
    /\ blend_indices["pour"] =
          [index_name |-> "pour_idx", func |-> "ppi", inv_func |-> "inv_ppi"]
    /\ blend_indices["api"] =
          [index_name |-> "sg", func |-> "sg", inv_func |-> "api"]

\* One caller looked up a key the registry does not hold while another ran
\* the projector.
C7_Witness ==
    \E c, d \in Callers :
        /\ c # d
        /\ Done(c, "lookup") /\ call[c].key = UnknownKey
        /\ Done(d, "process_quality_constraints")
        /\ Len(call[d].arg.items) > 0

(***************************************************************************)
(* C8.  Purity under interleaving.                                         *)
(***************************************************************************)
\* C8: a call leaves the object the caller passed unchanged, returns what the
\* same request returns when it runs alone, whatever the other callers do
\* meanwhile, and two calls with the same input end with the same outcome.
C8_PureUnderInterleaving ==
    /\ \A c \in Callers :
          /\ pc[c] # "idle" => arg[c] = call[c].arg
          /\ pc[c] = "done" => ret[c] = Outcome(call[c])
    /\ \A c, d \in Callers :
          pc[c] = "done" /\ pc[d] = "done" /\ call[c] = call[d] => ret[c] = ret[d]

\* One caller's ppi call has returned while another caller is inside ppi on a
\* different input.
C8_Witness ==
    \E c, d \in Callers :
        /\ c # d
        /\ Done(c, "forward") /\ call[c].key = "pour" /\ call[c].arg = QInt(32)
        /\ ret[c].k = "mono"
        /\ pc[d] = "ppi:24" /\ call[d].arg = QInt(50)

(***************************************************************************)
(* C9.  Vectorization.                                                     *)
(***************************************************************************)
\* C9: the forward transform of an array is an array of the same length whose
\* element at each position is the forward transform of the scalar there, and
\* the array call fails exactly when one of the scalar calls would.
C9_Vectorized ==
    \A c \in Callers :
        Done(c, "forward") /\ call[c].key \in DOMAIN Registry /\ IsArr(call[c].arg) =>
            LET fn == Registry[call[c].key].func
                each == [i \in DOMAIN call[c].arg.a |-> Apply(fn, call[c].arg.a[i])]
            IN  /\ IsRaise(ret[c]) <=> \E i \in DOMAIN each : IsRaise(each[i])
                /\ ~IsRaise(ret[c]) =>
                      /\ IsArr(ret[c])
                      /\ ret[c].a = each

\* A two-element viscosity array was transformed element by element.
C9_Witness ==
    \E c \in Callers :
        /\ Done(c, "forward") /\ call[c].key = "vis100f"
        /\ call[c].arg = Arr(<<Q(2000001, 10000000), Q(92, 10)>>)
        /\ IsArr(ret[c]) /\ Len(ret[c].a) = 2 /\ ret[c].a[2] = Zero

(***************************************************************************)
(* C10.  inv_vbi against vbi's guard.                                      *)
(***************************************************************************)
\* C10 as claimed: inv_vbi performs no domain check, and for every finite
\* index y its result is above 0.2, so that vbi(inv_vbi(y)) never fails.
C10_InverseNeverTripsGuard ==
    \A c \in Callers :
        /\ Done(c, "inverse") /\ call[c].key = "vis100f" => ~IsRaise(ret[c])
        /\ Done(c, "forward") /\ call[c].key = "vis100f" /\ IsRat(call[c].from) =>
              /\ Greater(call[c].arg, Q(2, 10))
              /\ ~IsRaise(ret[c])

\* C10 amended: inv_vbi performs no domain check.  For an index y at or above
\* log10(2^-53 / ln 10) = -16.3168 its result is above 0.2 and
\* vbi(inv_vbi(y)) does not fail; below it 10^(10^y) rounds to 1.0, the result
\* 1.0 - 0.8 is not above 0.2, and vbi's assert fails (assertions enabled).
C10_GuardAboveAbsorption ==
    \A c \in Callers :
        /\ Done(c, "inverse") /\ call[c].key = "vis100f" => ~IsRaise(ret[c])
        /\ Done(c, "forward") /\ call[c].key = "vis100f" /\ IsRat(call[c].from) =>
              IF QLe(AbsorbExp10, call[c].from)
              THEN /\ Greater(call[c].arg, Q(2, 10))
                   /\ ~IsRaise(ret[c])
              ELSE /\ ~Greater(call[c].arg, Q(2, 10))
                   /\ debug => ret[c] = Raise("AssertionError", "")

\* The index -20 went through inv_vbi and its result made vbi's assert fail.
C10_Witness ==
    \E c \in Callers :
        /\ Done(c, "forward") /\ call[c].key = "vis100f"
        /\ call[c].from = QInt(-20)
        /\ ret[c] = Raise("AssertionError", "")
=============================================================================
